---- MODULE Spec2Model ----
(***************************************************************************)
(* Fractured Forest: the season-reactive platforming core of               *)
(* src/Ava/fractured_forest.py (SeasonManager, RoomChunk, Player,          *)
(* GameManager) as a state machine.                                        *)
(*                                                                         *)
(* Numbers.  Positions are integer pixels, as pygame.Rect keeps them.      *)
(* Velocities and multipliers are Python floats in the source; every value *)
(* the program can produce is a decimal with at most four places, so they  *)
(* are kept here as integers in units of 1/SCALE (4.8 is 48000).  Python's *)
(* round() on these floats agrees with round-half-to-even on the decimals. *)
(*                                                                         *)
(* Left out: the window, fonts, drawing and the particle list (random,     *)
(* cosmetic, read by nothing that is modelled).                            *)
(***************************************************************************)
EXTENDS Integers, Sequences, FiniteSets, TLC

\* ------------------------------------------------------------ constants

SCALE == 10000

WIDTH == 960
HEIGHT == 540
ROOM_COUNT == 5
GROUND_Y == HEIGHT - 42

SEASON_ORDER == <<"Spring", "Summer", "Autumn", "Winter">>

PLAYER_W == 34
PLAYER_H == 52
BASE_SPEED == 48000
BASE_JUMP == 125000
BASE_GRAVITY == 5800
MAX_FALL == 150000

SPAWN_X == 70
SPAWN_Y == 420

DEFAULT_COOLDOWN == 500
SLOW_COOLDOWN == 800
FLASH_START == 170
FLASH_DECAY == 8

\* ------------------------------------------------------------ bounds

\* Loop iterations of GameManager.run explored by Spec.
MaxFrames == 6
\* Loop iterations explored by SpecPond (the actor comes down into the water
\* of the first template).
MaxPondFrames == 10
\* Loop iterations explored by SpecWalk (the actor walks right).
MaxWalkFrames == 47
\* Loop iterations explored by SpecEnd (the actor walks right until the run
\* is over) while the run is playing, and the further iterations followed
\* once a run is over.
MaxRunFrames == 47
MaxOverFrames == 2
\* Loop iterations explored by SpecLeft (the actor walks left).
MaxLeftFrames == 12
\* Loop iterations explored by SpecIdle (nobody touches the keyboard).
MaxIdleFrames == 13
\* Frame durations in ms: clock.tick(FPS) waits for at least 1000 // 60 = 16 ms,
\* a slow frame lasts longer.  Spec and SpecPond run on slow frames.
FrameDts == {500}
PondDts == {500}
\* SpecWalk and SpecEnd run on slow frames too; SpecLeft and SpecIdle keep to
\* the nominal frame time.
WalkDts == {500}
EndDts == {500}
LeftDts == {16}
IdleDts == {16}
\* The iterations of Spec in which K_r is pressed in a finished run.
RestartFrames == {5}
\* The iterations of SpecWalk in which K_q may be pressed (the last three
\* before the actor reaches the thorns of the second template), and the one
\* in which the left key may be held instead of the right one.
WalkCycleFrames == {44, 45, 46}
WalkLeftFrames == {46}
\* The iterations of SpecEnd in which K_r is pressed in a finished run.
EndRestartFrames == {46}
\* The iterations of SpecPond in which K_q is pressed, and those in which
\* the left key may be held.
PondCycleFrames == {0, 1, 9}
PondLeftFrames == {9, 10}
\* pygame.time.get_ticks() read inside a frame, relative to the now_ms sampled
\* at the top of that frame.
TickLags == {0, 1}
\* pygame.time.get_ticks() when GameManager() is constructed.
InitTicks == {0}

\* ------------------------------------------------------------ arithmetic

\* Product of two fixed-point numbers.
Mul(a, b) == (a * b) \div SCALE

Min(a, b) == IF a <= b THEN a ELSE b
Max(a, b) == IF a >= b THEN a ELSE b

\* Python round() of a float held in fixed point: to nearest, ties to even.
Round(v) ==
    LET q == v \div SCALE
        r == v % SCALE
    IN  IF 2 * r < SCALE THEN q
        ELSE IF 2 * r > SCALE THEN q + 1
        ELSE IF q % 2 = 0 THEN q ELSE q + 1

\* ------------------------------------------------------------ pygame.Rect

Rect(x, y, w, h) == [x |-> x, y |-> y, w |-> w, h |-> h]

Left(r) == r.x
Right(r) == r.x + r.w
Top(r) == r.y
Bottom(r) == r.y + r.h

\* pygame.Rect.colliderect: the interiors overlap; touching edges do not.
colliderect(a, b) ==
    /\ a.w > 0 /\ a.h > 0 /\ b.w > 0 /\ b.h > 0
    /\ a.x < b.x + b.w
    /\ a.y < b.y + b.h
    /\ a.x + a.w > b.x
    /\ a.y + a.h > b.y

\* One axis of pygame.Rect.clamp_ip.
ClampAxis(pos, size, lo, span) ==
    IF size >= span THEN lo + span \div 2 - size \div 2
    ELSE IF pos < lo THEN lo
    ELSE IF pos + size > lo + span THEN lo + span - size
    ELSE pos

\* pygame.Rect.clamp_ip(area): move the rectangle inside area.
clamp_ip(r, area) ==
    [r EXCEPT !.x = ClampAxis(r.x, r.w, area.x, area.w),
              !.y = ClampAxis(r.y, r.h, area.y, area.h)]

AnyCollide(r, rects) == \E i \in 1..Len(rects) : colliderect(r, rects[i])

\* ------------------------------------------------------------ SeasonManager

\* SeasonManager.__init__
NewSeasonManager(cooldown_ms) ==
    [current_index |-> 0,
     cooldown_ms |-> cooldown_ms,
     last_cycle_ms |-> -cooldown_ms,
     flash_alpha |-> 0]

\* SeasonManager.current (SEASON_ORDER is indexed from 0 in the source).
Current(sm) == SEASON_ORDER[sm.current_index + 1]

\* can_cycle with a strict comparison: the request that arrives exactly when
\* the cooldown ends is turned down.
can_cycle_strict(sm, t) == t - sm.last_cycle_ms > sm.cooldown_ms

\* can_cycle that forgets the cooldown.
can_cycle_no_cooldown(sm, t) == t - sm.last_cycle_ms >= 0

\* SeasonManager.can_cycle
can_cycle(sm, t) == t - sm.last_cycle_ms >= sm.cooldown_ms

\* cycle that moves the cooldown anchor even when it turns the request down.
cycle_rearms(sm, t) ==
    IF ~can_cycle(sm, t)
    THEN [sm |-> [sm EXCEPT !.last_cycle_ms = t], ret |-> FALSE]
    ELSE [sm |-> [sm EXCEPT !.current_index = (sm.current_index + 1) % Len(SEASON_ORDER),
                            !.last_cycle_ms = t,
                            !.flash_alpha = FLASH_START],
          ret |-> TRUE]

\* SeasonManager.cycle: the manager afterwards and the value returned.
cycle(sm, t) ==
    IF ~can_cycle(sm, t)
    THEN [sm |-> sm, ret |-> FALSE]
    ELSE [sm |-> [sm EXCEPT !.current_index = (sm.current_index + 1) % Len(SEASON_ORDER),
                            !.last_cycle_ms = t,
                            !.flash_alpha = FLASH_START],
          ret |-> TRUE]

\* SeasonManager.update: the flash fades.
SeasonUpdate(sm) ==
    IF sm.flash_alpha > 0
    THEN [sm EXCEPT !.flash_alpha = Max(0, sm.flash_alpha - FLASH_DECAY)]
    ELSE sm

\* ------------------------------------------------------------ RoomChunk

Seasonal(rect, seasons, kind) == [rect |-> rect, seasons |-> seasons, kind |-> kind]

\* GameManager._build_templates: the three templates the game ships.
Template1 ==
    [platforms |-> <<Rect(0, GROUND_Y, WIDTH, 50), Rect(190, 430, 170, 20), Rect(450, 360, 180, 20)>>,
     seasonal_platforms |-> <<Seasonal(Rect(330, 300, 130, 16), {"Spring", "Autumn"}, "vine"),
                              Seasonal(Rect(690, 270, 170, 16), {"Winter"}, "ice")>>,
     hazards |-> <<Rect(560, GROUND_Y - 18, 130, 18)>>,
     water |-> <<Rect(95, GROUND_Y - 18, 180, 18)>>,
     wind |-> <<Rect(640, 210, 200, 220)>>,
     exit_zone |-> Rect(900, GROUND_Y - 70, 44, 70)]

Template2 ==
    [platforms |-> <<Rect(0, GROUND_Y, WIDTH, 50), Rect(160, 390, 120, 20),
                     Rect(350, 330, 140, 20), Rect(560, 285, 120, 20)>>,
     seasonal_platforms |-> <<Seasonal(Rect(285, 445, 110, 16), {"Winter"}, "ice"),
                              Seasonal(Rect(725, 250, 145, 16), {"Spring", "Autumn"}, "vine")>>,
     hazards |-> <<Rect(380, GROUND_Y - 18, 120, 18)>>,
     water |-> <<Rect(640, GROUND_Y - 20, 210, 20)>>,
     wind |-> <<Rect(95, 220, 180, 230)>>,
     exit_zone |-> Rect(902, 180, 40, 68)]

Template3 ==
    [platforms |-> <<Rect(0, GROUND_Y, WIDTH, 50), Rect(105, 455, 160, 20),
                     Rect(360, 415, 160, 20), Rect(620, 360, 150, 20)>>,
     seasonal_platforms |-> <<Seasonal(Rect(500, 300, 130, 16), {"Spring", "Autumn"}, "vine"),
                              Seasonal(Rect(260, 310, 130, 16), {"Winter"}, "ice")>>,
     hazards |-> <<Rect(140, GROUND_Y - 16, 135, 16), Rect(810, GROUND_Y - 16, 90, 16)>>,
     water |-> <<Rect(430, GROUND_Y - 18, 200, 18)>>,
     wind |-> <<Rect(700, 210, 160, 210)>>,
     exit_zone |-> Rect(34, 380, 38, 70)]

\* self.room_templates, by name.
RoomTemplate(name) ==
    CASE name = "T1" -> Template1
      [] name = "T2" -> Template2
      [] name = "T3" -> Template3

\* SeasonalActive that leaves the season tags unread.
RECURSIVE SeasonalActive_untagged(_, _)
SeasonalActive_untagged(entries, season) ==
    IF entries = <<>> THEN <<>>
    ELSE <<Head(entries).rect>> \o SeasonalActive_untagged(Tail(entries), season)

\* The seasonal rectangles solid in a season, in list order.
RECURSIVE SeasonalActive(_, _)
SeasonalActive(entries, season) ==
    IF entries = <<>> THEN <<>>
    ELSE (IF season \in Head(entries).seasons THEN <<Head(entries).rect>> ELSE <<>>)
         \o SeasonalActive(Tail(entries), season)

\* RoomChunk.active_platforms
active_platforms(room, season) ==
    room.platforms
    \o SeasonalActive(room.seasonal_platforms, season)
    \o (IF season = "Winter" THEN room.water ELSE <<>>)

\* RoomChunk.active_platforms as the method call it is: the list returned and
\* the room afterwards.  Line 70 copies base_platforms, so the appends of
\* lines 73 and 75 go to the copy and the room keeps its lists.
active_platforms_call(room, season) ==
    [ret |-> active_platforms(room, season), room |-> room]

\* hazard_active that spares Spring only: thorns stay live in Winter.
hazard_active_winter(season, brittle_thorns) ==
    IF season \in {"Summer", "Autumn", "Winter"} THEN TRUE
    ELSE IF season = "Spring" /\ brittle_thorns THEN TRUE
    ELSE FALSE

\* RoomChunk.hazard_active
hazard_active(season, brittle_thorns) ==
    IF season \in {"Summer", "Autumn"} THEN TRUE
    ELSE IF season = "Spring" /\ brittle_thorns THEN TRUE
    ELSE FALSE

\* ------------------------------------------------------------ Player

\* Player.__init__ / Player.reset: at (x, y), at rest, not grounded.
NewPlayer(x, y) ==
    [rect |-> Rect(x, y, PLAYER_W, PLAYER_H),
     vel_x |-> 0,
     vel_y |-> 0,
     on_ground |-> FALSE]

\* The held direction keys: a/LEFT and d/RIGHT.
KeyStates == [left : BOOLEAN, right : BOOLEAN]

\* Player.update, lines 110-114: right cancels left.
Direction(keys) ==
    (IF keys.left THEN -1 ELSE 0) + (IF keys.right THEN 1 ELSE 0)

\* Player.update, lines 123-126: each wind zone touched adds wind_push.
RECURSIVE WindPush(_, _, _)
WindPush(rect, zones, push) ==
    IF zones = <<>> THEN 0
    ELSE (IF colliderect(rect, Head(zones)) THEN push ELSE 0)
         + WindPush(rect, Tail(zones), push)

\* Player.update, lines 116-126: vel_x before the move.
IntentVelX(p, keys, room, season, mods) ==
    LET speed == Mul(BASE_SPEED, mods.speed_mult)
        v0 == Direction(keys) * speed
        in_water == AnyCollide(p.rect, room.water)
        v1 == IF in_water /\ season \in {"Spring", "Summer"}
              THEN Mul(v0, Mul(4500, mods.water_drag_mult))
              ELSE v0
    IN  IF season = "Autumn"
        THEN v1 + WindPush(p.rect, room.wind, mods.wind_push)
        ELSE v1

\* Player.update, line 128: gravity every frame, capped at max_fall.
FallVelY(p, mods) ==
    Min(p.vel_y + Mul(BASE_GRAVITY, mods.gravity_mult), MAX_FALL)

\* Player.update, lines 131-136: the platforms in list order, each pushing
\* the rectangle (as the earlier ones left it) out sideways.
RECURSIVE ResolveX(_, _, _)
ResolveX(rect, vel_x, plats) ==
    IF plats = <<>> THEN rect
    ELSE LET pl == Head(plats)
             r2 == IF ~colliderect(rect, pl) THEN rect
                   ELSE IF vel_x > 0 THEN [rect EXCEPT !.x = pl.x - rect.w]
                   ELSE IF vel_x < 0 THEN [rect EXCEPT !.x = pl.x + pl.w]
                   ELSE rect
         IN  ResolveX(r2, vel_x, Tail(plats))

\* Player.update, lines 130-136: the horizontal pass.
HorizontalPass(rect, vel_x, plats) ==
    ResolveX([rect EXCEPT !.x = rect.x + Round(vel_x)], vel_x, plats)

\* Player.update, lines 140-148: the platforms in list order; a landing or a
\* bump zeroes vel_y, so later platforms in the list no longer act.
RECURSIVE ResolveY(_, _)
ResolveY(b, plats) ==
    IF plats = <<>> THEN b
    ELSE LET pl == Head(plats)
             b2 == IF ~colliderect(b.rect, pl) THEN b
                   ELSE IF b.vel_y > 0
                        THEN [rect |-> [b.rect EXCEPT !.y = pl.y - b.rect.h],
                              vel_y |-> 0, on_ground |-> TRUE]
                   ELSE IF b.vel_y < 0
                        THEN [rect |-> [b.rect EXCEPT !.y = pl.y + pl.h],
                              vel_y |-> 0, on_ground |-> b.on_ground]
                   ELSE b
         IN  ResolveY(b2, Tail(plats))

\* Player.update, lines 138-148: the vertical pass.
VerticalPass(rect, vel_y, plats) ==
    ResolveY([rect |-> [rect EXCEPT !.y = rect.y + Round(vel_y)],
              vel_y |-> vel_y, on_ground |-> FALSE], plats)

\* A clamp rectangle that starts left of the screen.
ClampArea_wide == Rect(-PLAYER_W, -200, WIDTH + PLAYER_W, HEIGHT + 300)

\* Player.update, line 154.
ClampArea == Rect(0, -200, WIDTH, HEIGHT + 300)

\* Player.update
Player_update(p, keys, room, season, mods) ==
    LET in_water == AnyCollide(p.rect, room.water)
        vx == IntentVelX(p, keys, room, season, mods)
        vy == FallVelY(p, mods)
        plats == active_platforms(room, season)
        rx == HorizontalPass(p.rect, vx, plats)
        b == VerticalPass(rx, vy, plats)
        vx2 == IF in_water /\ season = "Winter"
               THEN Mul(vx, Mul(9850, mods.ice_slip))
               ELSE vx
    IN  [rect |-> clamp_ip(b.rect, ClampArea),
         vel_x |-> vx2,
         vel_y |-> b.vel_y,
         on_ground |-> b.on_ground]

\* ------------------------------------------------------------ echo seeds

\* GameManager.__init__: self.echo_pool, by name.
EchoPool == <<"Swiftstride", "Moonlight Bones", "Brittle Thorns",
              "Glacial Rhythm", "Heavy Bloom", "Tailwind">>

\* GameManager._seeds_to_modifiers, lines 242-251.
DefaultModifiers ==
    [speed_mult |-> 10000,
     gravity_mult |-> 10000,
     jump_mult |-> 10000,
     water_drag_mult |-> 10000,
     wind_push |-> 2400,
     ice_slip |-> 10000,
     brittle_thorns |-> FALSE,
     slow_cycle |-> FALSE]

\* ApplySeed whose two flags shut each other out: Brittle Thorns clears
\* slow_cycle.
ApplySeed_exclusive_flags(mods, name) ==
    IF name = "Swiftstride"
    THEN [mods EXCEPT !.speed_mult = Mul(@, 12000)]
    ELSE IF name = "Moonlight Bones"
    THEN [mods EXCEPT !.gravity_mult = Mul(@, 8200), !.jump_mult = Mul(@, 10800)]
    ELSE IF name = "Brittle Thorns"
    THEN [mods EXCEPT !.brittle_thorns = TRUE, !.slow_cycle = FALSE]
    ELSE IF name = "Glacial Rhythm"
    THEN [mods EXCEPT !.slow_cycle = TRUE]
    ELSE IF name = "Heavy Bloom"
    THEN [mods EXCEPT !.water_drag_mult = Mul(@, 7500)]
    ELSE IF name = "Tailwind"
    THEN [mods EXCEPT !.wind_push = 4500]
    ELSE mods

\* GameManager._seeds_to_modifiers, lines 253-265: one seed applied.
ApplySeed(mods, name) ==
    IF name = "Swiftstride"
    THEN [mods EXCEPT !.speed_mult = Mul(@, 12000)]
    ELSE IF name = "Moonlight Bones"
    THEN [mods EXCEPT !.gravity_mult = Mul(@, 8200), !.jump_mult = Mul(@, 10800)]
    ELSE IF name = "Brittle Thorns"
    THEN [mods EXCEPT !.brittle_thorns = TRUE]
    ELSE IF name = "Glacial Rhythm"
    THEN [mods EXCEPT !.slow_cycle = TRUE]
    ELSE IF name = "Heavy Bloom"
    THEN [mods EXCEPT !.water_drag_mult = Mul(@, 7500)]
    ELSE IF name = "Tailwind"
    THEN [mods EXCEPT !.wind_push = 4500]
    ELSE mods

RECURSIVE FoldSeeds(_, _)
FoldSeeds(mods, seeds) ==
    IF seeds = <<>> THEN mods
    ELSE FoldSeeds(ApplySeed(mods, Head(seeds)), Tail(seeds))

\* GameManager._seeds_to_modifiers
seeds_to_modifiers(seeds) == FoldSeeds(DefaultModifiers, seeds)

\* ------------------------------------------------------------ GameManager

\* What restart_run draws: a room list (ROOM_COUNT choices among the three
\* templates, with repetition: 3^5 lists) and a seed pair (random.sample of
\* two seeds of the pool, in sample order: 30 pairs).
Draw(room_list, seeds) == [rooms |-> room_list, seeds |-> seeds]

\* The names of the templates of _build_templates, in its order.
TemplateNames == {"T1", "T2", "T3"}

\* Every outcome of line 232.
RoomLists ==
    {<<a, b, c, d, e>> : a \in TemplateNames, b \in TemplateNames, c \in TemplateNames,
                         d \in TemplateNames, e \in TemplateNames}

\* Every outcome of line 234.
SeedPairs ==
    {<<EchoPool[i], EchoPool[j]>> : i \in 1..Len(EchoPool), j \in 1..Len(EchoPool)}
    \ {<<EchoPool[i], EchoPool[i]>> : i \in 1..Len(EchoPool)}

\* Every draw of restart_run: 7290 of them.
Draws == {Draw(r, p) : r \in RoomLists, p \in SeedPairs}

\* A room list and a seed pair are a draw of restart_run.
IsDraw(room_list, seeds) ==
    /\ Len(room_list) = ROOM_COUNT
    /\ \A i \in 1..ROOM_COUNT : room_list[i] \in TemplateNames
    /\ seeds \in SeedPairs

VARIABLES
    state,           \* self.state: "playing", "won" or "failed"
    start_time_ms,   \* self.start_time_ms
    end_time_ms,     \* self.end_time_ms
    room_index,      \* self.room_index
    rooms,           \* self.rooms, as template names
    current_room,    \* self.current_room, as a template name
    season_manager,  \* self.season_manager
    player,          \* self.player
    selected_seeds,  \* self.selected_seeds, as seed names
    modifiers,       \* self.modifiers
    now_ms,          \* run(): now_ms of the loop iteration under way
    frame,           \* run(): loop iterations completed
    after_update     \* _update_gameplay: self.player as the latest
                     \* self.player.update(...) left it (line 335)

vars == <<state, start_time_ms, end_time_ms, room_index, rooms, current_room,
          season_manager, player, selected_seeds, modifiers, now_ms, frame,
          after_update>>

\* The GameManager fields as one value, for the methods below.
Game ==
    [state |-> state,
     start_time_ms |-> start_time_ms,
     end_time_ms |-> end_time_ms,
     room_index |-> room_index,
     rooms |-> rooms,
     current_room |-> current_room,
     season_manager |-> season_manager,
     player |-> player,
     selected_seeds |-> selected_seeds,
     modifiers |-> modifiers]

\* restart_run that keeps the season manager of the run before.
restart_run_keeps_season(g, ticks, new_rooms, new_seeds) ==
    LET mods == seeds_to_modifiers(new_seeds)
    IN  [state |-> "playing",
         start_time_ms |-> ticks,
         end_time_ms |-> 0,
         room_index |-> 0,
         rooms |-> new_rooms,
         current_room |-> new_rooms[1],
         season_manager |-> IF "season_manager" \in DOMAIN g
                            THEN g.season_manager
                            ELSE NewSeasonManager(DEFAULT_COOLDOWN),
         player |-> NewPlayer(SPAWN_X, SPAWN_Y),
         selected_seeds |-> new_seeds,
         modifiers |-> mods]

\* restart_run that builds every season manager with the default cooldown.
restart_run_default_cooldown(g, ticks, new_rooms, new_seeds) ==
    LET mods == seeds_to_modifiers(new_seeds)
    IN  [state |-> "playing",
         start_time_ms |-> ticks,
         end_time_ms |-> 0,
         room_index |-> 0,
         rooms |-> new_rooms,
         current_room |-> new_rooms[1],
         season_manager |-> NewSeasonManager(DEFAULT_COOLDOWN),
         player |-> NewPlayer(SPAWN_X, SPAWN_Y),
         selected_seeds |-> new_seeds,
         modifiers |-> mods]

\* GameManager.restart_run; ticks is pygame.time.get_ticks(), new_rooms and
\* new_seeds what random.choice and random.sample return.
restart_run(g, ticks, new_rooms, new_seeds) ==
    LET mods == seeds_to_modifiers(new_seeds)
        cooldown == IF mods.slow_cycle THEN SLOW_COOLDOWN ELSE DEFAULT_COOLDOWN
    IN  [state |-> "playing",
         start_time_ms |-> ticks,
         end_time_ms |-> 0,
         room_index |-> 0,
         rooms |-> new_rooms,
         current_room |-> new_rooms[1],
         season_manager |-> NewSeasonManager(cooldown),
         player |-> NewPlayer(SPAWN_X, SPAWN_Y),
         selected_seeds |-> new_seeds,
         modifiers |-> mods]

\* advance_room that starts the next room with a new season manager.
advance_room_new_season(g, ticks) ==
    LET idx == g.room_index + 1
    IN  IF idx >= Len(g.rooms)
        THEN [g EXCEPT !.room_index = idx, !.state = "won", !.end_time_ms = ticks]
        ELSE [g EXCEPT !.room_index = idx,
                       !.current_room = g.rooms[idx + 1],
                       !.player = NewPlayer(SPAWN_X, SPAWN_Y),
                       !.season_manager = NewSeasonManager(g.season_manager.cooldown_ms)]

\* advance_room that counts the room but leaves the old one current.
advance_room_keeps_room(g, ticks) ==
    LET idx == g.room_index + 1
    IN  IF idx >= Len(g.rooms)
        THEN [g EXCEPT !.room_index = idx, !.state = "won", !.end_time_ms = ticks]
        ELSE [g EXCEPT !.room_index = idx,
                       !.player = NewPlayer(SPAWN_X, SPAWN_Y)]

\* advance_room that takes the last room's index for the end of the list.
advance_room_early(g, ticks) ==
    LET idx == g.room_index + 1
    IN  IF idx >= Len(g.rooms) - 1
        THEN [g EXCEPT !.room_index = idx, !.state = "won", !.end_time_ms = ticks]
        ELSE [g EXCEPT !.room_index = idx,
                       !.current_room = g.rooms[idx + 1],
                       !.player = NewPlayer(SPAWN_X, SPAWN_Y)]

\* GameManager.advance_room
advance_room(g, ticks) ==
    LET idx == g.room_index + 1
    IN  IF idx >= Len(g.rooms)
        THEN [g EXCEPT !.room_index = idx, !.state = "won", !.end_time_ms = ticks]
        ELSE [g EXCEPT !.room_index = idx,
                       !.current_room = g.rooms[idx + 1],
                       !.player = NewPlayer(SPAWN_X, SPAWN_Y)]

\* fail_run without its guard on self.state.
fail_run_unguarded(g, ticks) ==
    [g EXCEPT !.state = "failed", !.end_time_ms = ticks]

\* fail_run that forgets to read the clock.
fail_run_unstamped(g, ticks) ==
    IF g.state = "playing"
    THEN [g EXCEPT !.state = "failed"]
    ELSE g

\* GameManager.fail_run
fail_run(g, ticks) ==
    IF g.state = "playing"
    THEN [g EXCEPT !.state = "failed", !.end_time_ms = ticks]
    ELSE g

\* _handle_gameplay_input that lets the player jump in mid-air.
handle_gameplay_input_air_jump(g, key, t) ==
    IF key = "q"
    THEN [g EXCEPT !.season_manager = cycle(g.season_manager, t).sm]
    ELSE IF key = "space"
    THEN [g EXCEPT !.player.vel_y = -Mul(BASE_JUMP, g.modifiers.jump_mult)]
    ELSE g

\* GameManager._handle_gameplay_input for a KEYDOWN of key.
handle_gameplay_input(g, key, t) ==
    IF key = "q"
    THEN [g EXCEPT !.season_manager = cycle(g.season_manager, t).sm]
    ELSE IF key = "space" /\ g.player.on_ground
    THEN [g EXCEPT !.player.vel_y = -Mul(BASE_JUMP, g.modifiers.jump_mult)]
    ELSE g

\* GameManager._update_gameplay, lines 337-349, on the player as
\* self.player.update left it.
OutcomeChecks(g, ticks) ==
    LET room == RoomTemplate(g.current_room)
        season == Current(g.season_manager)
        hazard_on == hazard_active(season, g.modifiers.brittle_thorns)
    IN  IF hazard_on /\ AnyCollide(g.player.rect, room.hazards)
        THEN fail_run(g, ticks)
        ELSE IF Top(g.player.rect) > HEIGHT + 80
        THEN fail_run(g, ticks)
        ELSE LET g2 == IF colliderect(g.player.rect, room.exit_zone)
                       THEN advance_room(g, ticks)
                       ELSE g
             IN  [g2 EXCEPT !.season_manager = SeasonUpdate(g2.season_manager)]

\* _update_gameplay whose physics step still sees the season as it was before
\* a cycle accepted in this iteration.
update_gameplay_stale_season(g, keys, ticks) ==
    LET sm == g.season_manager
        stale == IF sm.last_cycle_ms = ticks
                 THEN SEASON_ORDER[((sm.current_index + Len(SEASON_ORDER) - 1)
                                      % Len(SEASON_ORDER)) + 1]
                 ELSE Current(sm)
        moved == Player_update(g.player, keys, RoomTemplate(g.current_room),
                               stale, g.modifiers)
    IN  OutcomeChecks([g EXCEPT !.player = moved], ticks)

\* GameManager._update_gameplay
update_gameplay(g, keys, ticks) ==
    LET moved == Player_update(g.player, keys, RoomTemplate(g.current_room),
                               Current(g.season_manager), g.modifiers)
    IN  OutcomeChecks([g EXCEPT !.player = moved], ticks)

\* The event loop with K_r restarting the run whatever its state.
handle_event_restart_any(g, key, t, ticks, new_rooms, new_seeds) ==
    LET g1 == IF key = "r"
              THEN restart_run(g, ticks, new_rooms, new_seeds)
              ELSE g
    IN  IF g1.state = "playing"
        THEN handle_gameplay_input(g1, key, t)
        ELSE g1

\* The event loop without the test of self.state on line 459.
handle_event_any_state(g, key, t, ticks, new_rooms, new_seeds) ==
    LET g1 == IF key = "r" /\ g.state \in {"won", "failed"}
              THEN restart_run(g, ticks, new_rooms, new_seeds)
              ELSE g
    IN  handle_gameplay_input(g1, key, t)

\* GameManager.run, lines 456-460: one event of the queue.
handle_event(g, key, t, ticks, new_rooms, new_seeds) ==
    LET g1 == IF key = "r" /\ g.state \in {"won", "failed"}
              THEN restart_run(g, ticks, new_rooms, new_seeds)
              ELSE g
    IN  IF g1.state = "playing"
        THEN handle_gameplay_input(g1, key, t)
        ELSE g1

\* The fields after a method has run.
Becomes(g) ==
    /\ state' = g.state
    /\ start_time_ms' = g.start_time_ms
    /\ end_time_ms' = g.end_time_ms
    /\ room_index' = g.room_index
    /\ rooms' = g.rooms
    /\ current_room' = g.current_room
    /\ season_manager' = g.season_manager
    /\ player' = g.player
    /\ selected_seeds' = g.selected_seeds
    /\ modifiers' = g.modifiers

\* GameManager.__init__, which ends in restart_run(), and the first now_ms.
InitWith(draws) ==
    \E t \in InitTicks, d \in draws :
        LET g == restart_run([player |-> NewPlayer(50, 400)], t, d.rooms, d.seeds)
        IN  /\ state = g.state
            /\ start_time_ms = g.start_time_ms
            /\ end_time_ms = g.end_time_ms
            /\ room_index = g.room_index
            /\ rooms = g.rooms
            /\ current_room = g.current_room
            /\ season_manager = g.season_manager
            /\ player = g.player
            /\ selected_seeds = g.selected_seeds
            /\ modifiers = g.modifiers
            /\ now_ms = t
            /\ frame = 0
            /\ after_update = g.player

Init == InitWith(Draws)

\* One KEYDOWN event taken from the queue in this iteration's event loop
\* (lines 451-460).  Only K_r in a finished run reads the clock and draws.
Deliver(key) ==
    IF key = "r" /\ state \in {"won", "failed"}
    THEN \E lag \in TickLags, d \in Draws :
             Becomes(handle_event(Game, key, now_ms, now_ms + lag, d.rooms, d.seeds))
    ELSE Becomes(handle_event(Game, key, now_ms, now_ms, rooms, selected_seeds))

KeyQ ==
    /\ Deliver("q")
    /\ UNCHANGED <<now_ms, frame, after_update>>

KeySpace ==
    /\ Deliver("space")
    /\ UNCHANGED <<now_ms, frame, after_update>>

KeyR ==
    /\ Deliver("r")
    /\ UNCHANGED <<now_ms, frame, after_update>>

\* The rest of the loop iteration once the event queue is empty: the update
\* while playing (lines 462-463), the frame's wait (line 471) and the next
\* iteration's now_ms (line 450).  The clock is read only by a frame that
\* ends the run.
FrameStep(keys, dt) ==
    /\ IF state = "playing"
       THEN /\ IF update_gameplay(Game, keys, now_ms).state = "playing"
               THEN Becomes(update_gameplay(Game, keys, now_ms))
               ELSE \E lag \in TickLags :
                        Becomes(update_gameplay(Game, keys, now_ms + lag))
            /\ after_update' = Player_update(player, keys, RoomTemplate(current_room),
                                             Current(season_manager), modifiers)
       ELSE /\ Becomes(Game)
            /\ after_update' = after_update
    /\ now_ms' = now_ms + dt
    /\ frame' = frame + 1

\* A season cycle is due: a K_q now would be accepted.
CycleDue ==
    /\ state = "playing"
    /\ now_ms - season_manager.last_cycle_ms >= season_manager.cooldown_ms

NoKeys == [left |-> FALSE, right |-> FALSE]

\* The loop with no direction key held, on slow frames, the player cycling
\* the season in every iteration in which the cooldown allows it.
Frame ==
    /\ frame < MaxFrames
    /\ ~CycleDue
    /\ \E dt \in FrameDts : FrameStep(NoKeys, dt)

\* K_r as Spec presses it: at any time while the run is playing, and in a
\* finished run in the iterations of RestartFrames.
ScheduledR ==
    /\ state = "playing" \/ frame \in RestartFrames
    /\ KeyR

Next == KeyQ \/ KeySpace \/ ScheduledR \/ Frame

Spec == Init /\ [][Next]_vars

\* K_q as SpecPond presses it: in the iterations of PondCycleFrames.
PondQ ==
    /\ frame \in PondCycleFrames
    /\ KeyQ

\* The keys held in an iteration of SpecPond: none, or left in the
\* iterations of PondLeftFrames.
PondKeys == {k \in KeyStates : ~k.right /\ (k.left => frame \in PondLeftFrames)}

\* The same loop on slow frames, with the actor left to come down where it
\* starts, the season cycled twice at the start and once more when the actor
\* of a run in the first template is down, and the actor then sent left or
\* not.
FramePond ==
    /\ frame < MaxPondFrames
    /\ frame \in PondCycleFrames => ~CycleDue
    /\ \E keys \in PondKeys, dt \in PondDts : FrameStep(keys, dt)

NextPond == PondQ \/ FramePond

SpecPond == Init /\ [][NextPond]_vars

\* The keys held in an iteration of SpecWalk: right alone, or left alone in
\* the iterations of WalkLeftFrames.
WalkKeys ==
    {k \in KeyStates : k.left # k.right /\ (k.left => frame \in WalkLeftFrames)}

\* K_q as SpecWalk presses it: in the iterations of WalkCycleFrames.
WalkQ ==
    /\ frame \in WalkCycleFrames
    /\ KeyQ

\* The same loop on slow frames with the actor walking right, whatever the
\* rooms drawn, and turning left or not in the last iteration.
FrameWalk ==
    /\ frame < MaxWalkFrames
    /\ \E keys \in WalkKeys, dt \in WalkDts : FrameStep(keys, dt)

NextWalk == WalkQ \/ FrameWalk

SpecWalk == Init /\ [][NextWalk]_vars

\* The keys held in an iteration of SpecEnd: right alone while the run is
\* playing, any once it is over.
EndKeys == {k \in KeyStates : state = "playing" => (k.right /\ ~k.left)}

\* K_q and K_SPACE as SpecEnd presses them: once the run is over.
EndQ ==
    /\ state # "playing"
    /\ KeyQ

EndSpace ==
    /\ state # "playing"
    /\ KeySpace

\* K_r as SpecEnd presses it: at any time while the run is playing, and in a
\* finished run in the iterations of EndRestartFrames.
EndR ==
    /\ state = "playing" \/ frame \in EndRestartFrames
    /\ KeyR

\* The same loop on slow frames with the actor walking right until the run
\* is over, whatever the rooms drawn; a run that is over is followed for
\* MaxOverFrames iterations more.
FrameEnd ==
    /\ \/ frame < MaxRunFrames
       \/ state # "playing" /\ frame < MaxRunFrames + MaxOverFrames
    /\ \E keys \in EndKeys, dt \in EndDts : FrameStep(keys, dt)

NextEnd == EndQ \/ EndSpace \/ EndR \/ FrameEnd

SpecEnd == Init /\ [][NextEnd]_vars

\* The keys held in SpecLeft: left alone.
LeftKeys == {k \in KeyStates : k.left /\ ~k.right}

\* The same loop with the actor walking left all the time, at the nominal
\* frame time, whatever the rooms drawn.
FrameLeft ==
    /\ frame < MaxLeftFrames
    /\ \E keys \in LeftKeys, dt \in LeftDts : FrameStep(keys, dt)

NextLeft == FrameLeft

SpecLeft == Init /\ [][NextLeft]_vars

\* Nobody touches the keyboard: the frames alone, at the nominal frame time.
FrameIdle ==
    /\ frame < MaxIdleFrames
    /\ \E dt \in IdleDts : FrameStep(NoKeys, dt)

NextIdle == FrameIdle

SpecIdle == Init /\ [][NextIdle]_vars

\* ------------------------------------------------------------ properties

\* The room, the season and the platforms the physics step of the iteration
\* under way works with.
RoomNow == RoomTemplate(current_room)
SeasonNow == Current(season_manager)
PlatsNow == active_platforms(RoomNow, SeasonNow)

\* What the physics step of the iteration under way may leave, by the keys
\* held.
StepWith(keys) == Player_update(player, keys, RoomNow, SeasonNow, modifiers)

\* What the specification calls hazardActive(season, brittleThorns).
HazardsOn(season, brittle_thorns) ==
    \/ season \in {"Summer", "Autumn"}
    \/ season = "Spring" /\ brittle_thorns

\* The successor of a season in the cyclic order.
NextSeason(season) ==
    CASE season = "Spring" -> "Summer"
      [] season = "Summer" -> "Autumn"
      [] season = "Autumn" -> "Winter"
      [] season = "Winter" -> "Spring"

\* A step that runs _update_gameplay: a loop iteration ends while playing.
PlayedFrame == state = "playing" /\ frame' = frame + 1

\* A step that handles a key event: the loop iteration goes on.
EventStep == frame' = frame /\ now_ms' = now_ms

\* What pygame.time.get_ticks() may return during the iteration under way.
TicksNow == {now_ms + lag : lag \in TickLags}

\* A step in which K_r restarts a finished run: KeyR from a state that is
\* not playing, with the rooms and seeds of the next state as the draw and
\* its start timestamp as the clock read.
RestartStep ==
    /\ state # "playing"
    /\ state' = "playing"
    /\ IsDraw(rooms', selected_seeds')
    /\ start_time_ms' \in TicksNow
    /\ Becomes(handle_event(Game, "r", now_ms, start_time_ms', rooms', selected_seeds'))
    /\ UNCHANGED <<now_ms, frame, after_update>>

\* The actor, as a physics step left it, is on live thorns of the room.
OnLiveThorns(p) ==
    /\ HazardsOn(Current(season_manager), modifiers.brittle_thorns)
    /\ AnyCollide(p.rect, RoomTemplate(current_room).hazards)

\* The actor, as a physics step left it, is below the out-of-world line.
OutOfWorld(p) == Top(p.rect) > HEIGHT + 80

\* The actor, as a physics step left it, reaches the exit and nothing fails
\* the run first.
ReachesExit(p) ==
    /\ ~OnLiveThorns(p)
    /\ ~OutOfWorld(p)
    /\ colliderect(p.rect, RoomTemplate(current_room).exit_zone)

\* Times around the end of the cooldown, and the frame's own now_ms.
ProbeTimes ==
    {now_ms,
     season_manager.last_cycle_ms,
     season_manager.last_cycle_ms + 1,
     season_manager.last_cycle_ms + season_manager.cooldown_ms - 1,
     season_manager.last_cycle_ms + season_manager.cooldown_ms,
     season_manager.last_cycle_ms + season_manager.cooldown_ms + 1}

\* C1: once the outcome is won or failed, no frame and no gameplay input
\* changes it; the only step that leaves it is K_r's restart, which makes it
\* playing; and fail_run does nothing to a run that is not playing.
C1_OutcomeIsTerminal ==
    /\ [](state # "playing" => \A t \in TicksNow : fail_run(Game, t) = Game)
    /\ [][state # "playing" /\ state' # state => RestartStep]_vars

\* C1 witness: a run failed on the thorns and further frames have gone by
\* since, with keys held.
C1_Witness ==
    /\ state = "failed"
    /\ AnyCollide(player.rect, RoomTemplate(current_room).hazards)
    /\ now_ms > end_time_ms + 500

\* C2: while the outcome is won or failed, every step other than K_r's
\* restart leaves the actor, the room index, the current room, the season
\* with its cooldown anchor and the end timestamp as they are.
C2_TerminalFreezes ==
    [][state # "playing" /\ ~RestartStep
         => UNCHANGED <<player, room_index, current_room, season_manager, end_time_ms>>]_vars

\* C2 witness: a run failed with the actor walking on the ground; further
\* frames have gone by since, and a K_q or a K_SPACE now would act on a run
\* that is playing: the cooldown has run out and the actor is grounded.
C2_Witness ==
    /\ state = "failed"
    /\ now_ms > end_time_ms + 500
    /\ player.on_ground
    /\ player.vel_x > 0
    /\ can_cycle(season_manager, now_ms)
    /\ handle_gameplay_input([Game EXCEPT !.state = "playing"], "q", now_ms).season_manager
         # season_manager
    /\ handle_gameplay_input([Game EXCEPT !.state = "playing"], "space", now_ms).player
         # player

\* A rectangle of width w and height h can overlap both a and b.
Spans(a, b, w, h) ==
    /\ Max(Left(a), Left(b)) - Min(Right(a), Right(b)) < w
    /\ Max(Top(a), Top(b)) - Min(Bottom(a), Bottom(b)) < h

\* In no template can the actor overlap thorns and the exit at once.
ThornsClearOfExit ==
    \A name \in TemplateNames :
        \A i \in 1..Len(RoomTemplate(name).hazards) :
            ~Spans(RoomTemplate(name).hazards[i], RoomTemplate(name).exit_zone,
                   PLAYER_W, PLAYER_H)

\* C3: a frame whose physics step leaves the actor on live thorns fails the
\* run in that frame: the end timestamp is read, the room index and room stay
\* and the actor lies as the step left it.  The thorns are tested before the
\* exit; in the rooms the program builds no position of the actor overlaps
\* both, so a run on thorns is never one in the exit as well.
C3_HazardFailsFirst ==
    /\ [][PlayedFrame /\ OnLiveThorns(after_update')
            => /\ state' = "failed"
               /\ end_time_ms' \in TicksNow
               /\ room_index' = room_index
               /\ current_room' = current_room
               /\ player' = after_update']_vars
    /\ []ThornsClearOfExit
    /\ [](state = "playing" => ~(/\ AnyCollide(player.rect, RoomNow.hazards)
                                 /\ colliderect(player.rect, RoomNow.exit_zone)))

\* C3 witness: the run failed in the frame that took the walking actor onto
\* the thorns; the actor lies as that frame's physics step left it.
C3_Witness ==
    /\ state = "failed"
    /\ end_time_ms > 0
    /\ AnyCollide(player.rect, RoomTemplate(current_room).hazards)
    /\ player = after_update
    /\ player.vel_x > 0

\* C4: the outcome becomes won exactly in a frame whose physics step leaves
\* the actor, failing on nothing, in the exit of the last room, with the room
\* index then the number of rooms and the end timestamp read; in the exit of
\* an earlier room the index grows by one and the run goes on; and a run of
\* one room is won on its first exit, with index 1.
C4_WonAtLastExit ==
    /\ [][/\ (state' = "won" /\ state # "won")
               => PlayedFrame /\ ReachesExit(after_update')
                  /\ room_index = Len(rooms) - 1
          /\ (PlayedFrame /\ ReachesExit(after_update') /\ room_index = Len(rooms) - 1)
               => /\ state' = "won"
                  /\ room_index' = Len(rooms)
                  /\ end_time_ms' \in TicksNow
          /\ (PlayedFrame /\ ReachesExit(after_update') /\ room_index < Len(rooms) - 1)
               => /\ state' = "playing"
                  /\ room_index' = room_index + 1]_vars
    /\ [](state = "playing" /\ room_index = 0
            => LET one == [Game EXCEPT !.rooms = <<current_room>>]
                   done == advance_room(one, now_ms)
               IN  /\ done.state = "won"
                   /\ done.room_index = 1
                   /\ done.end_time_ms = now_ms)

\* C4 witness: a run won, with every room passed.
C4_Witness == state = "won" /\ room_index = ROOM_COUNT /\ Len(rooms) = ROOM_COUNT

\* C5: a cycle request made before the cooldown has run out returns false
\* and leaves the season, the cooldown anchor and the cooldown as they were;
\* and so does the Q key.
C5_CycleRejected ==
    \A t \in ProbeTimes :
        t - season_manager.last_cycle_ms < season_manager.cooldown_ms
        => /\ cycle(season_manager, t).ret = FALSE
           /\ cycle(season_manager, t).sm = season_manager
           /\ handle_gameplay_input(Game, "q", t) = Game

\* C5 witness: a season was cycled in an earlier frame and the cooldown has
\* not run out yet.
C5_Witness ==
    /\ state = "playing"
    /\ season_manager.last_cycle_ms >= 0
    /\ now_ms > season_manager.last_cycle_ms
    /\ now_ms - season_manager.last_cycle_ms < season_manager.cooldown_ms

\* The manager after four accepted requests, one cooldown apart, from t on.
FourCycles(sm, t) ==
    LET a == cycle(sm, t).sm
        b == cycle(a, t + sm.cooldown_ms).sm
        c == cycle(b, t + 2 * sm.cooldown_ms).sm
    IN  cycle(c, t + 3 * sm.cooldown_ms).sm

\* C6: a cycle request made once the cooldown has run out (to the
\* millisecond) returns true, moves the season one step on in the order
\* Spring, Summer, Autumn, Winter, Spring and sets the anchor to now; four
\* of them come back to the season they started from.
C6_CycleAccepted ==
    \A t \in ProbeTimes :
        t - season_manager.last_cycle_ms >= season_manager.cooldown_ms
        => LET c == cycle(season_manager, t)
           IN  /\ c.ret = TRUE
               /\ Current(c.sm) = NextSeason(Current(season_manager))
               /\ c.sm.last_cycle_ms = t
               /\ c.sm.cooldown_ms = season_manager.cooldown_ms
               /\ handle_gameplay_input(Game, "q", t).season_manager = c.sm
               /\ Current(FourCycles(season_manager, t)) = Current(season_manager)

\* C6 witness: four cycles done in a run, each as soon as the cooldown
\* allowed, and the season is Spring again.
C6_Witness ==
    /\ state = "playing"
    /\ Current(season_manager) = "Spring"
    /\ season_manager.last_cycle_ms - start_time_ms = 3 * season_manager.cooldown_ms

\* C7: within a run, a season change is one step, is stamped with the
\* frame's now_ms, and comes at least a cooldown after the one before; so no
\* second change happens in a frame that has had one.
C7_CyclesApart ==
    [][state = "playing" /\ Current(season_manager') # Current(season_manager)
         => /\ Current(season_manager') = NextSeason(Current(season_manager))
            /\ season_manager'.last_cycle_ms = now_ms
            /\ season_manager'.last_cycle_ms - season_manager.last_cycle_ms
                 >= season_manager.cooldown_ms
            /\ season_manager.last_cycle_ms # now_ms]_vars

\* C7 witness: a second cycle of a run, made exactly one cooldown after the
\* first, in the frame under way.
C7_Witness ==
    /\ state = "playing"
    /\ Current(season_manager) = "Autumn"
    /\ season_manager.last_cycle_ms = now_ms
    /\ now_ms - start_time_ms = season_manager.cooldown_ms

\* The jump speed of the run.
JumpVelY == -Mul(BASE_JUMP, modifiers.jump_mult)

\* C8 as the specification has it: a jump taken while grounded sets vel_y
\* and clears grounded at once.
C8_JumpClearsGrounded ==
    [][EventStep /\ state = "playing" /\ player' # player
         => /\ player.on_ground
            /\ player' = [player EXCEPT !.vel_y = JumpVelY, !.on_ground = FALSE]]_vars

\* C8 as the code has it: a key event changes the actor only when it is
\* grounded, and then sets vel_y to the jump speed and nothing else (grounded
\* stays set, so another jump edge of the same frame sets the same vel_y
\* again); the physics step of that frame clears grounded; and the physics
\* step never applies a jump: it leaves vel_y at the old value plus gravity
\* (capped), or at zero.
C8_JumpOnlyWhenGrounded ==
    /\ [][EventStep /\ state = "playing" /\ player' # player
            => /\ player.on_ground
               /\ player' = [player EXCEPT !.vel_y = JumpVelY]]_vars
    /\ [][PlayedFrame
            => /\ after_update'.vel_y
                    \in {0, Min(player.vel_y + Mul(BASE_GRAVITY, modifiers.gravity_mult),
                                MAX_FALL)}
               /\ (player.on_ground /\ player.vel_y = JumpVelY
                     => ~after_update'.on_ground)]_vars
    /\ [](state = "playing" /\ ~player.on_ground
            => handle_gameplay_input(Game, "space", now_ms) = Game)

\* C8 witness: a jump has been taken in the frame under way: the actor has
\* the jump speed and is still marked grounded.
C8_Witness ==
    /\ state = "playing"
    /\ player.on_ground
    /\ player.vel_y = JumpVelY

\* C10: hazard_active is true exactly in Summer and Autumn, and in Spring
\* with Brittle Thorns; so no run fails on thorns in Winter, nor in Spring
\* without Brittle Thorns: a frame that leaves the actor on thorns there
\* leaves the run playing in its room.
C10_HazardSeasons ==
    /\ [](\A i \in 1..Len(SEASON_ORDER), b \in BOOLEAN :
            hazard_active(SEASON_ORDER[i], b) = HazardsOn(SEASON_ORDER[i], b))
    /\ [][state = "playing" /\ state' = "failed"
            => \/ Current(season_manager) \in {"Summer", "Autumn"}
               \/ Current(season_manager) = "Spring" /\ modifiers.brittle_thorns
               \/ OutOfWorld(after_update')]_vars
    /\ [][(/\ PlayedFrame
            /\ AnyCollide(after_update'.rect, RoomNow.hazards)
            /\ \/ Current(season_manager) = "Winter"
               \/ Current(season_manager) = "Spring" /\ ~modifiers.brittle_thorns)
            => /\ state' = "playing"
               /\ room_index' = room_index
               /\ player' = after_update']_vars

\* C10 witness: in Winter the actor is on thorns after a physics step and
\* the run is still playing.
C10_Witness ==
    /\ state = "playing"
    /\ frame >= 1
    /\ Current(season_manager) = "Winter"
    /\ player = after_update
    /\ AnyCollide(player.rect, RoomTemplate(current_room).hazards)

\* The members of a list.
Elems(seq) == {seq[i] : i \in 1..Len(seq)}

\* The seasonal entries of a room tagged with a season.
TaggedWith(room, season) ==
    {i \in 1..Len(room.seasonal_platforms) : season \in room.seasonal_platforms[i].seasons}

\* C11: for every room of the run and every season S, active_platforms(S) is
\* the base rectangles, the seasonal rectangles tagged with S and, in Winter
\* only, the water rectangles, nothing else and nothing twice; a seasonal
\* rectangle tagged {Winter} alone is in it exactly when S is Winter; and the
\* query leaves the room as it was.
C11_ActivePlatforms ==
    \A i \in 1..Len(rooms), k \in 1..Len(SEASON_ORDER) :
        LET room == RoomTemplate(rooms[i])
            S == SEASON_ORDER[k]
            q == active_platforms_call(room, S)
        IN  /\ Elems(q.ret)
                 = Elems(room.platforms)
                   \cup {room.seasonal_platforms[j].rect : j \in TaggedWith(room, S)}
                   \cup (IF S = "Winter" THEN Elems(room.water) ELSE {})
            /\ Len(q.ret)
                 = Len(room.platforms) + Cardinality(TaggedWith(room, S))
                   + (IF S = "Winter" THEN Len(room.water) ELSE 0)
            /\ \A j \in 1..Len(room.seasonal_platforms) :
                   room.seasonal_platforms[j].seasons = {"Winter"}
                   => (room.seasonal_platforms[j].rect \in Elems(q.ret) <=> S = "Winter")
            /\ q.room = room
            /\ active_platforms_call(q.room, S).ret = q.ret

\* C11 witness: a physics step has run in Winter in a run one of whose rooms
\* has a platform tagged {Winter} alone and water.
C11_Witness ==
    /\ state = "playing"
    /\ Current(season_manager) = "Winter"
    /\ player = after_update
    /\ frame >= 3
    /\ \E i \in 1..Len(rooms) :
           LET room == RoomTemplate(rooms[i])
           IN  /\ room.water # <<>>
               /\ \E j \in 1..Len(room.seasonal_platforms) :
                      /\ room.seasonal_platforms[j].seasons = {"Winter"}
                      /\ room.seasonal_platforms[j].rect
                            \in Elems(active_platforms(room, "Winter"))

\* C12: a frame that takes the actor through the exit of a room that is not
\* the last puts it at the spawn point of the next room, at rest and not
\* grounded, and leaves the season, the cooldown anchor, the cooldown and the
\* modifiers as they were: a request the cooldown blocked before the
\* transition is blocked after it.
C12_NextRoomKeepsSeason ==
    [][PlayedFrame /\ ReachesExit(after_update') /\ room_index < Len(rooms) - 1
         => /\ current_room' = rooms[room_index + 2]
            /\ player'.rect = Rect(SPAWN_X, SPAWN_Y, PLAYER_W, PLAYER_H)
            /\ player'.vel_x = 0
            /\ player'.vel_y = 0
            /\ player'.on_ground = FALSE
            /\ Current(season_manager') = Current(season_manager)
            /\ season_manager'.last_cycle_ms = season_manager.last_cycle_ms
            /\ season_manager'.cooldown_ms = season_manager.cooldown_ms
            /\ modifiers' = modifiers
            /\ selected_seeds' = selected_seeds
            /\ \A t \in ProbeTimes :
                   cycle(season_manager', t).ret = cycle(season_manager, t).ret]_vars

\* C12 witness: the actor stands at the spawn point of the second room, put
\* there by the frame just over, while a cooldown started in the first room
\* is still running.
C12_Witness ==
    /\ state = "playing"
    /\ room_index = 1
    /\ frame >= 1
    /\ player = NewPlayer(SPAWN_X, SPAWN_Y)
    /\ colliderect(after_update.rect, RoomTemplate(rooms[1]).exit_zone)
    /\ season_manager.last_cycle_ms >= 0
    /\ Current(season_manager) # "Spring"
    /\ now_ms - season_manager.last_cycle_ms < season_manager.cooldown_ms

\* C13: K_r in a finished run leaves every field of the run as
\* GameManager() leaves it: playing, room index 0, the first of the new rooms
\* current, the end timestamp 0, the actor at the spawn point at rest and not
\* grounded, the season Spring with no flash and a cycle request accepted at
\* once, the modifiers those of the new seeds and the cooldown theirs.
C13_RestartIsFresh ==
    [][RestartStep
         => /\ state' = "playing"
            /\ room_index' = 0
            /\ Len(rooms') = ROOM_COUNT
            /\ current_room' = rooms'[1]
            /\ end_time_ms' = 0
            /\ start_time_ms' \in TicksNow
            /\ player' = NewPlayer(SPAWN_X, SPAWN_Y)
            /\ Current(season_manager') = "Spring"
            /\ season_manager'.flash_alpha = 0
            /\ cycle(season_manager', now_ms).ret = TRUE
            /\ modifiers' = seeds_to_modifiers(selected_seeds')
            /\ season_manager'.cooldown_ms
                 = (IF modifiers'.slow_cycle THEN SLOW_COOLDOWN ELSE DEFAULT_COOLDOWN)
            /\ Game' = restart_run([player |-> NewPlayer(50, 400)],
                                   start_time_ms', rooms', selected_seeds')]_vars

\* C13 witness: a run that was restarted, before its first frame, after a
\* run in which the actor had moved.
C13_Witness ==
    /\ state = "playing"
    /\ start_time_ms > 0
    /\ start_time_ms >= now_ms
    /\ room_index = 0
    /\ player = NewPlayer(SPAWN_X, SPAWN_Y)
    /\ after_update # player
    /\ season_manager = NewSeasonManager(season_manager.cooldown_ms)

\* The lists without repetition over the pool, of every length.
SeedSelections ==
    UNION {{s \in [1..k -> Elems(EchoPool)] : \A i, j \in 1..k : s[i] = s[j] => i = j}
           : k \in 0..Len(EchoPool)}

\* A selection in the order of the pool.
RECURSIVE InPoolOrder(_, _)
InPoolOrder(chosen, pool) ==
    IF pool = <<>> THEN <<>>
    ELSE (IF Head(pool) \in chosen THEN <<Head(pool)>> ELSE <<>>)
         \o InPoolOrder(chosen, Tail(pool))

\* Every order of a selection folds to what the order of the pool folds to.
FoldOrderFree ==
    \A s \in SeedSelections :
        seeds_to_modifiers(s) = seeds_to_modifiers(InPoolOrder(Elems(s), EchoPool))

\* C14: the modifiers folded from a selection without repetition do not
\* depend on the order of the selection; no seed gives the defaults (every
\* multiplier 1, wind_push 0.24, both flags false); Swiftstride alone gives
\* speed_mult 1.2 and the defaults elsewhere; and the modifiers of the run are
\* those of its seeds in either order.
C14_FoldOrderFree ==
    /\ FoldOrderFree
    /\ seeds_to_modifiers(<<>>)
         = [speed_mult |-> SCALE, gravity_mult |-> SCALE, jump_mult |-> SCALE,
            water_drag_mult |-> SCALE, wind_push |-> 2400, ice_slip |-> SCALE,
            brittle_thorns |-> FALSE, slow_cycle |-> FALSE]
    /\ seeds_to_modifiers(<<"Swiftstride">>)
         = [seeds_to_modifiers(<<>>) EXCEPT !.speed_mult = 12000]
    /\ modifiers = seeds_to_modifiers(<<selected_seeds[2], selected_seeds[1]>>)

\* C14 witness: a run whose two seeds were drawn against the order of the
\* pool and have both taken effect.
C14_Witness ==
    /\ selected_seeds = <<"Heavy Bloom", "Brittle Thorns">>
    /\ modifiers.water_drag_mult = 7500
    /\ modifiers.brittle_thorns
    /\ frame >= 1

\* C15: the cooldown is 800 ms when Glacial Rhythm is among the seeds of the
\* run and 500 ms otherwise, and no step but K_r's restart changes the
\* cooldown, the modifiers or the seeds.
C15_CooldownFixedAtStart ==
    /\ [](/\ modifiers.slow_cycle <=> "Glacial Rhythm" \in Elems(selected_seeds)
          /\ season_manager.cooldown_ms
               = (IF "Glacial Rhythm" \in Elems(selected_seeds) THEN 800 ELSE 500)
          /\ modifiers = seeds_to_modifiers(selected_seeds))
    /\ [][~RestartStep
            => /\ season_manager'.cooldown_ms = season_manager.cooldown_ms
               /\ modifiers' = modifiers
               /\ selected_seeds' = selected_seeds]_vars

\* C15 witness: a run with Glacial Rhythm, started by a restart, has cycled
\* its season at the 800 ms cooldown and has gone on to its second room.
C15_Witness ==
    /\ "Glacial Rhythm" \in Elems(selected_seeds)
    /\ season_manager.cooldown_ms = SLOW_COOLDOWN
    /\ start_time_ms > 0
    /\ season_manager.last_cycle_ms >= start_time_ms
    /\ state = "playing"
    /\ room_index = 1

\* C16: in an iteration while playing, the key events come first and do no
\* physics and no outcome check; then the physics step runs with the season
\* as the events left it, a cycle accepted in this iteration included; then
\* the outcome checks look at the actor as that physics step left it, with
\* that same season for the thorns.
C16_FrameOrder ==
    /\ [][EventStep /\ state = "playing"
            => /\ player'.rect = player.rect
               /\ after_update' = after_update
               /\ state' = "playing"
               /\ room_index' = room_index]_vars
    /\ [][PlayedFrame
            => /\ \E keys \in KeyStates : after_update' = StepWith(keys)
               /\ state' = "failed"
                    <=> (OnLiveThorns(after_update') \/ OutOfWorld(after_update'))
               /\ room_index' = room_index + 1 <=> ReachesExit(after_update')
               /\ ~ReachesExit(after_update') => player' = after_update'
               /\ Current(season_manager') = Current(season_manager)]_vars

\* C16 witness: a cycle to Autumn was accepted in the iteration just over,
\* and its physics step has given the actor, no key held, the speed of the
\* Autumn wind.
C16_Witness ==
    /\ state = "playing"
    /\ Current(season_manager) = "Autumn"
    /\ season_manager.last_cycle_ms > 0
    /\ now_ms - season_manager.last_cycle_ms \in FrameDts
    /\ player = after_update
    /\ AnyCollide(player.rect, RoomNow.wind)
    /\ player.vel_x = modifiers.wind_push

\* The actor's rectangle after the vertical move of the physics step, before
\* the platforms act on it.
AfterFall(keys) ==
    LET rx == HorizontalPass(player.rect, IntentVelX(player, keys, RoomNow, SeasonNow, modifiers),
                             PlatsNow)
    IN  [rx EXCEPT !.y = rx.y + Round(FallVelY(player, modifiers))]

\* The platforms, by their place in the list, that rectangle overlaps.
HitByFall(keys) ==
    LET fallen == AfterFall(keys)
        plats == PlatsNow
    IN  {i \in 1..Len(plats) : colliderect(fallen, plats[i])}

\* C17 as the specification has it: a falling actor ends the step on top of
\* every platform it overlapped after the vertical move.
C17_LandsOnEveryPlatform ==
    state = "playing"
    => \A keys \in KeyStates :
          FallVelY(player, modifiers) > 0
          => \A i \in HitByFall(keys) :
                /\ StepWith(keys).on_ground
                /\ StepWith(keys).vel_y = 0
                /\ Bottom(StepWith(keys).rect) = Top(PlatsNow[i])

\* C17 witness: in Winter the actor has landed on the floor while standing in
\* the frozen water, which it still overlaps.
C17_Witness ==
    /\ state = "playing"
    /\ Current(season_manager) = "Winter"
    /\ player = after_update
    /\ player.on_ground
    /\ player.vel_y = 0
    /\ Bottom(player.rect) = Top(RoomTemplate(current_room).platforms[1])
    /\ AnyCollide(player.rect, RoomTemplate(current_room).water)

\* vel_x of the physics step before the move, by the keys held.
VelXWith(keys) == IntentVelX(player, keys, RoomNow, SeasonNow, modifiers)

\* The actor's rectangle after the horizontal move of the physics step,
\* before the platforms act on it.
AfterShift(keys) == [player.rect EXCEPT !.x = player.rect.x + Round(VelXWith(keys))]

\* The platforms, by their place in the list, that rectangle overlaps.
HitByShift(keys) ==
    LET shifted == AfterShift(keys)
        plats == PlatsNow
    IN  {i \in 1..Len(plats) : colliderect(shifted, plats[i])}

\* The actor's rectangle at the end of the horizontal pass.
AfterHorizontal(keys) == HorizontalPass(player.rect, VelXWith(keys), PlatsNow)

\* vel_x at the end of the physics step: as before the move, or scaled on ice.
EndVelX(keys) ==
    IF AnyCollide(player.rect, RoomNow.water) /\ SeasonNow = "Winter"
    THEN Mul(VelXWith(keys), Mul(9850, modifiers.ice_slip))
    ELSE VelXWith(keys)

\* The horizontal pass moves the actor sideways only, the vertical pass
\* starts from where it ended, and vel_x is not changed by either.
PassesInOrder(keys) ==
    LET rx == AfterHorizontal(keys)
        b == VerticalPass(rx, FallVelY(player, modifiers), PlatsNow)
        end == StepWith(keys)
    IN  /\ rx.y = player.rect.y
        /\ rx.w = player.rect.w
        /\ rx.h = player.rect.h
        /\ end.rect = clamp_ip(b.rect, ClampArea)
        /\ end.vel_y = b.vel_y
        /\ end.on_ground = b.on_ground
        /\ end.vel_x = EndVelX(keys)

\* C18 as the specification has it: the horizontal pass ends with the actor
\* against every platform it overlapped after the horizontal move.
C18_AgainstEveryPlatform ==
    state = "playing"
    => \A keys \in KeyStates :
          LET vx == VelXWith(keys)
              rx == AfterHorizontal(keys)
          IN  /\ PassesInOrder(keys)
              /\ \A i \in HitByShift(keys) :
                    /\ vx > 0 => Right(rx) = Left(PlatsNow[i])
                    /\ vx < 0 => Left(rx) = Right(PlatsNow[i])

\* C18 witness: in Winter the actor, moving left, has been put against the
\* right edge of the frozen water, the last platform of the list.
C18_Witness ==
    /\ state = "playing"
    /\ Current(season_manager) = "Winter"
    /\ player = after_update
    /\ player.vel_x < 0
    /\ Left(player.rect) = Right(RoomTemplate(current_room).water[1])

\* A rectangle lies in the clamp band.
InBand(r) ==
    /\ 0 <= Left(r)
    /\ Right(r) <= WIDTH
    /\ -200 <= Top(r)
    /\ Bottom(r) <= HEIGHT + 100

\* The actor as lines 105-152 of Player.update leave it, before the clamp.
BeforeClamp(keys, season) ==
    LET vx == IntentVelX(player, keys, RoomNow, season, modifiers)
        plats == active_platforms(RoomNow, season)
        b == VerticalPass(HorizontalPass(player.rect, vx, plats),
                          FallVelY(player, modifiers), plats)
    IN  [rect |-> b.rect,
         vel_x |-> IF AnyCollide(player.rect, RoomNow.water) /\ season = "Winter"
                   THEN Mul(vx, Mul(9850, modifiers.ice_slip))
                   ELSE vx,
         vel_y |-> b.vel_y,
         on_ground |-> b.on_ground]

\* C19: the actor's rectangle lies in the clamp band after every physics
\* step, whatever keys are held and whatever the season; in the season of
\* the step under way the clamp moves the rectangle (by as little as puts it
\* in the band) and leaves its size, vel_x, vel_y and on_ground as they were.
C19_ClampBand ==
    /\ InBand(player.rect)
    /\ InBand(after_update.rect)
    /\ state = "playing"
        => \A keys \in KeyStates :
              LET pre == BeforeClamp(keys, SeasonNow)
              IN  \A k \in 1..Len(SEASON_ORDER) :
                     LET post == Player_update(player, keys, RoomNow, SEASON_ORDER[k],
                                               modifiers)
                     IN  /\ InBand(post.rect)
                         /\ SEASON_ORDER[k] = SeasonNow
                              => /\ post = [pre EXCEPT !.rect.x = post.rect.x,
                                                       !.rect.y = post.rect.y]
                                 /\ InBand(pre.rect) => post = pre
                                 /\ Bottom(pre.rect) > HEIGHT + 100
                                      => Bottom(post.rect) = HEIGHT + 100

\* C19 witness: the actor, walking left, is held at the left edge of the
\* band, where the next step to the left takes it out of the band before the
\* clamp.
C19_Witness ==
    /\ state = "playing"
    /\ frame >= 1
    /\ player = after_update
    /\ player.vel_x < 0
    /\ Left(player.rect) = 0
    /\ Left(BeforeClamp([left |-> TRUE, right |-> FALSE], SeasonNow).rect) < 0

\* The actor's vel_x is a speed scaled on ice: the physics step ran in
\* Winter with a key held and the actor in water.
SlidOnIce ==
    /\ state = "playing"
    /\ Current(season_manager) = "Winter"
    /\ player = after_update
    /\ player.vel_x # 0
    /\ player.vel_x \in {Mul(d * Mul(BASE_SPEED, modifiers.speed_mult),
                              Mul(9850, modifiers.ice_slip)) : d \in {-1, 1}}

\* C20 as the specification has it: a speed scaled on ice carries into the
\* next frame: with no direction key held the actor still moves sideways, at
\* a speed nearer zero but not zero.
C20_IceSlipDrifts ==
    SlidOnIce
    => LET nxt == StepWith([left |-> FALSE, right |-> FALSE])
       IN  /\ nxt.rect.x # player.rect.x
           /\ nxt.vel_x # 0

\* C20 witness: the actor has slid on ice, and the next physics step with no
\* key held leaves it where it is, at vel_x zero.
C20_Witness ==
    /\ SlidOnIce
    /\ StepWith([left |-> FALSE, right |-> FALSE]).rect.x = player.rect.x
    /\ StepWith([left |-> FALSE, right |-> FALSE]).vel_x = 0

\* The actor stands on a platform of the list: its bottom edge on the top
\* edge, the two overlapping sideways.
StandsOn(r, plats) ==
    \E i \in 1..Len(plats) :
        /\ Bottom(r) = Top(plats[i])
        /\ Left(r) < Right(plats[i])
        /\ Right(r) > Left(plats[i])

\* C21 as the specification implies it: an actor that ended a frame grounded
\* on an active platform ends the next frame grounded too, when no key is
\* pressed or held, the season stays and the room stays.
C21_StaysGrounded ==
    [][(/\ PlayedFrame
        /\ player = after_update
        /\ player.on_ground
        /\ StandsOn(player.rect, PlatsNow)
        /\ state' = "playing"
        /\ room_index' = room_index)
         => player'.on_ground]_vars

\* C21 witness: with Moonlight Bones the actor, having landed, rests on the
\* floor with one frame's gravity as vel_y and is not grounded, so that a
\* jump pressed now is turned down.
C21_Witness ==
    /\ state = "playing"
    /\ frame >= 3
    /\ "Moonlight Bones" \in Elems(selected_seeds)
    /\ player = after_update
    /\ StandsOn(player.rect, PlatsNow)
    /\ ~player.on_ground
    /\ player.vel_y = Mul(BASE_GRAVITY, modifiers.gravity_mult)
    /\ Round(player.vel_y) = 0
    /\ handle_gameplay_input(Game, "space", now_ms) = Game

\* C22 as the specification implies it: a physics step leaves the actor
\* overlapping no platform that is solid in the season of the step.
C22_OverlapsNoPlatform ==
    [][(PlayedFrame /\ state' = "playing" /\ room_index' = room_index)
         => ~AnyCollide(player'.rect, PlatsNow)]_vars

\* C22 witness: a physics step in Winter has left the actor grounded on the
\* floor and inside the frozen water, which is a platform of that season.
C22_Witness ==
    /\ state = "playing"
    /\ Current(season_manager) = "Winter"
    /\ now_ms > season_manager.last_cycle_ms
    /\ player = after_update
    /\ player.on_ground
    /\ \E i \in 1..Len(PlatsNow) :
           /\ PlatsNow[i] \in Elems(RoomNow.water)
           /\ colliderect(player.rect, PlatsNow[i])

\* C23: the room index lies between 0 and the number of rooms and equals the
\* number of rooms exactly when the run is won; while the run is playing or
\* failed the current room is the room at the index (after the last exit it
\* stays the last room); within a run the index never goes down, key events
\* leave it alone and a frame raises it by one at most.
C23_RoomIndex ==
    /\ [](/\ room_index \in 0..Len(rooms)
          /\ Len(rooms) = ROOM_COUNT
          /\ room_index = Len(rooms) <=> state = "won"
          /\ state \in {"playing", "failed"} => current_room = rooms[room_index + 1]
          /\ state = "won" => current_room = rooms[Len(rooms)])
    /\ [][~RestartStep
            => /\ room_index' \in {room_index, room_index + 1}
               /\ rooms' = rooms
               /\ EventStep => room_index' = room_index
               /\ room_index' = room_index => current_room' = current_room]_vars

\* C23 witness: a run is under way in its third room, which differs from
\* the two before it, and the actor has moved there.
C23_Witness ==
    /\ state = "playing"
    /\ room_index = 2
    /\ current_room = rooms[3]
    /\ current_room # rooms[2]
    /\ player = after_update
    /\ player # NewPlayer(SPAWN_X, SPAWN_Y)

\* Draws other than the run's own: its rooms in reverse order or a room list
\* of one template, with its seeds in reverse order or two other seeds.
OtherDraws ==
    {Draw(r, p) : r \in {<<rooms[5], rooms[4], rooms[3], rooms[2], rooms[1]>>,
                         <<"T1", "T1", "T1", "T1", "T1">>,
                         <<"T3", "T3", "T3", "T3", "T3">>},
                  p \in {<<selected_seeds[2], selected_seeds[1]>>,
                         <<"Tailwind", "Heavy Bloom">>,
                         <<"Glacial Rhythm", "Brittle Thorns">>}}

\* C24: K_r while the run is playing changes nothing (outcome, room index,
\* rooms, actor, season, cooldown anchor, modifiers, seeds, start timestamp),
\* whatever the clock reads and whatever would be drawn; the start
\* timestamp, the rooms and the seeds change, and the room index goes down,
\* only when K_r restarts a run that is won or failed.
C24_RestartOnlyWhenOver ==
    /\ [](state = "playing"
            => \A d \in OtherDraws, t \in TicksNow :
                  handle_event(Game, "r", now_ms, t, d.rooms, d.seeds) = Game)
    /\ [][state = "playing" /\ KeyR => UNCHANGED vars]_vars
    /\ [][(\/ start_time_ms' # start_time_ms
            \/ rooms' # rooms
            \/ selected_seeds' # selected_seeds
            \/ modifiers' # modifiers
            \/ room_index' < room_index)
            => RestartStep]_vars

\* C24 witness: a run under way in its second room, the season cycled and
\* its cooldown running, on which K_r with another draw has no effect.
C24_Witness ==
    /\ state = "playing"
    /\ room_index >= 1
    /\ frame >= 2
    /\ Current(season_manager) # "Spring"
    /\ now_ms - season_manager.last_cycle_ms < season_manager.cooldown_ms
    /\ player = after_update
    /\ player.vel_y > 0
    /\ \E d \in OtherDraws :
           /\ d.seeds # selected_seeds
           /\ handle_event(Game, "r", now_ms, now_ms, d.rooms, d.seeds) = Game

====
